---------------------------- MODULE Spec2Model ----------------------------
(***************************************************************************)
(* The callback guide of keras-io ("Writing your own callbacks"): the       *)
(* fit / evaluate / predict run loop as the guide's recorded outputs show   *)
(* it, driving the guide's observers CustomCallback,                        *)
(* LossAndErrorPrintingCallback, EarlyStoppingAtMinLoss and                 *)
(* CustomLearningRateScheduler.                                             *)
(*                                                                         *)
(* Learning rates are in units of 1e-4 (0.1 is 1000).  Model weights are    *)
(* abstracted to the serial number of the gradient step that produced them. *)
(***************************************************************************)
EXTENDS Integers, Sequences, FiniteSets, TLC

\* ---------------------------------------------------------------- bounds
MaxEpochs == 3
MaxSteps == 2
MaxValSteps == 1
MaxLoss == 2
MaxPatience == 2
MaxESEpochs == 5
MaxLREpochs == 14
MaxValBatches == 2
MaxReuseEpochs == 3
\* the masking and padding guide
MaxBatch == 3
MaxLen == 3
MaxCells == 6
MaxLogitCells == 3
MaxLogit == 1
EmbedDim == 2

\* ------------------------------------------------------ program constants
\* RMSprop(learning_rate=0.1)
InitialLR == 1000
\* self.best_weights = None
NoWeights == -1
\* scheduled_lr before self.schedule(epoch, lr) has returned
Unscheduled == 0

\* metrics=["mean_absolute_error"]
Metrics == {"mean_absolute_error"}

\* np.Inf: above every loss value
NpInf == MaxLoss + 1

Losses == 1..MaxLoss

\* a loss that is not a number (a diverged training step)
NaN == -2

\* ------------------------------------------------------------- hook names
TrainHooks == {"on_train_begin", "on_train_end", "on_epoch_begin", "on_epoch_end",
               "on_train_batch_begin", "on_train_batch_end"}
TestHooks == {"on_test_begin", "on_test_end",
              "on_test_batch_begin", "on_test_batch_end"}
PredictHooks == {"on_predict_begin", "on_predict_end",
                 "on_predict_batch_begin", "on_predict_batch_end"}
Hooks == TrainHooks \cup TestHooks \cup PredictHooks

BeginHooks == {"on_train_begin", "on_test_begin", "on_predict_begin",
               "on_epoch_begin", "on_train_batch_begin",
               "on_test_batch_begin", "on_predict_batch_begin"}
EndHooks == Hooks \ BeginHooks
BatchBeginHooks == {"on_train_batch_begin", "on_test_batch_begin",
                    "on_predict_batch_begin"}
BatchEndHooks == {"on_train_batch_end", "on_test_batch_end",
                  "on_predict_batch_end"}
BatchHooks == BatchBeginHooks \cup BatchEndHooks
EpochHooks == {"on_epoch_begin", "on_epoch_end"}
RunBeginHooks == {"on_train_begin", "on_test_begin", "on_predict_begin"}
RunEndHooks == {"on_train_end", "on_test_end", "on_predict_end"}

\* ------------------------------------------------------------ logs dicts
\* A logs dict is modelled by its key set and, for the logs of an epoch, the
\* value under "loss" (the one value an observer's state depends on); in
\* every other logs dict the values are abstracted to 0.
EmptyLogs == [keys |-> {}, loss |-> 0]

\* keys of the logs of a train or test batch: the loss and the compiled metrics
MetricKeys == {"loss"} \cup Metrics

\* keys the validation results get in the epoch logs
ValKeys == {"val_" \o k : k \in MetricKeys}

\* logs at the end of a predict batch
PredictKeys == {"outputs"}

\* ---------------------------------------------------- observer registries
\* The callbacks lists the guide passes, and one observer ("Stopper") that
\* uses the documented self.model.stop_training = True at a batch end or
\* an epoch end.
CallbackLists ==
    { <<"CustomCallback">>,
      <<"LossAndErrorPrintingCallback">>,
      <<"LossAndErrorPrintingCallback", "EarlyStoppingAtMinLoss">>,
      <<"LossAndErrorPrintingCallback", "CustomLearningRateScheduler">>,
      <<"CustomCallback", "Stopper">> }

VARIABLES
    callbacks,    \* the list of registered observers
    pc,           \* lifecycle point the run loop is at ("idle": no run)
    mode,         \* "train", "test", "predict": the run in progress
    epochs,       \* fit(epochs=...)
    steps,        \* batches per epoch / per evaluate / per predict
    valSteps,     \* batches of the validation sub-run of fit (0: none)
    epoch,        \* current epoch index
    batch,        \* current batch index
    logs,         \* logs of the last batch
    epoch_logs,   \* logs of the current epoch; what on_train_end receives
    ev,           \* the lifecycle event being delivered
    next,         \* index in callbacks of the next observer to call
    active,       \* indices of observers whose hook is executing
    model,        \* [stop_training, weights, lr]
    updates,      \* number of gradient steps ever taken
    es,           \* EarlyStoppingAtMinLoss: [patience, wait, stopped_epoch, best, best_weights]
    raised,       \* exception that ended the run, or "none"
    printed,      \* what EarlyStoppingAtMinLoss.on_train_end printed (0: nothing)
    prev,         \* the lifecycle event delivered before ev in this run
    open,         \* stack of the scopes (run, epoch, batch) begun and not yet left
    done,         \* number of batches completed in this run
    stopAt,       \* where the stop flag was set in this run
    lastWrite,    \* the last hook that returned, the model fields it
                  \* changed and the stop flag it left
    received,     \* the observers whose hook was called for ev, in call order
    hist,         \* of the fit EarlyStoppingAtMinLoss observes: the lowest epoch
                  \* loss so far, the weights at the end of the first epoch
                  \* that had it, the epochs without improvement since
    \* the masking and padding guide
    cell,           \* the step of the guide executed last ("none": not begun)
    raw_inputs,     \* a list of token sequences of unequal length
    padded_inputs,  \* pad_sequences(raw_inputs, padding="post")
    inputs,         \* an integer batch (batch, seq_len) fed to a mask generator
    x,              \* the tensor the mask generator returned: [value, mask]
    y,              \* the tensor the layer after it returned: [value, mask]
    outputs,        \* what the mask consumer returned
    \* the learning-rate schedule
    args,           \* the arguments [epoch, lr] of a call of lr_schedule
    scheduled_lr    \* what the schedule returned last (Unscheduled: no call yet)

\* the variables of the callbacks guide, and those of the masking guide
fitvars == <<callbacks, pc, mode, epochs, steps, valSteps, epoch,
             batch, logs, epoch_logs, ev, next, active, model, updates, es,
             raised, printed, prev, open, done, stopAt, lastWrite, received,
             hist>>
nbvars == <<cell, raw_inputs, padded_inputs, inputs, x, y, outputs>>
fnvars == <<args, scheduled_lr>>
vars == <<fitvars, nbvars, fnvars>>

Range(f) == {f[i] : i \in DOMAIN f}

NoEvent == [hook |-> "none", idx |-> 0, keys |-> {}, loss |-> 0, epoch |-> 0]
NoStop == [hook |-> "none", epoch |-> 0, batch |-> 0]
NoWrite == [observer |-> "none", hook |-> "none", fields |-> {}, stop |-> FALSE]
NoHistory == [lowest |-> NpInf, lowestWeights |-> NoWeights, streak |-> 0]

\* the history h after an epoch that ended with loss l and weights w: an
\* epoch improves when its loss is strictly below the lowest loss before it
EpochOver(h, l, w) ==
    IF l # NaN /\ l < h.lowest
    THEN [lowest |-> l, lowestWeights |-> w, streak |-> 0]
    ELSE [h EXCEPT !.streak = h.streak + 1]

\* ------------------------------------------------------------ the model
\* get_model(): a freshly compiled model
get_model == [stop_training |-> FALSE, weights |-> 0, lr |-> InitialLR, has_lr |-> TRUE]

\* a compiled model whose optimizer has no "lr" attribute
model_without_lr == [get_model EXCEPT !.has_lr = FALSE]

\* ---------------------------------------------------------- the observers
\* np.less_equal in the place of np.less
np_less_equal(a, b) == a # NaN /\ b # NaN /\ a <= b

\* np.less(current, self.best): False when an operand is NaN
np_less(a, b) == a # NaN /\ b # NaN /\ a < b

\* EarlyStoppingAtMinLoss.__init__(patience)
EarlyStoppingAtMinLoss_init(p) ==
    [patience |-> p, wait |-> 0, stopped_epoch |-> 0, best |-> NpInf,
     best_weights |-> NoWeights]

\* EarlyStoppingAtMinLoss.on_train_begin
EarlyStoppingAtMinLoss_on_train_begin(self) ==
    [self EXCEPT !.wait = 0, !.stopped_epoch = 0, !.best = NpInf]

\* EarlyStoppingAtMinLoss.on_epoch_end with set_weights out of the patience
\* test: the weights are restored whenever the loss did not improve
EarlyStoppingAtMinLoss_on_epoch_end_restoresEarly(self, m, e, lg) ==
    IF np_less(lg.loss, self.best)
    THEN [self |-> [self EXCEPT !.best = lg.loss, !.wait = 0,
                                !.best_weights = m.weights],
          model |-> m, raised |-> "none"]
    ELSE [self |-> [self EXCEPT !.wait = self.wait + 1,
                                !.stopped_epoch =
                                    IF self.wait + 1 >= self.patience
                                    THEN e ELSE self.stopped_epoch],
          model |-> [m EXCEPT !.stop_training =
                                  m.stop_training \/ self.wait + 1 >= self.patience,
                              !.weights = self.best_weights],
          raised |-> "none"]

\* EarlyStoppingAtMinLoss.on_epoch_end with "self.wait > self.patience": one
\* more epoch is waited
EarlyStoppingAtMinLoss_on_epoch_end_waitsLonger(self, m, e, lg) ==
    IF "loss" \notin lg.keys
    THEN [self |-> self, model |-> m, raised |-> "TypeError"]
    ELSE IF np_less(lg.loss, self.best)
    THEN [self |-> [self EXCEPT !.best = lg.loss, !.wait = 0,
                                !.best_weights = m.weights],
          model |-> m, raised |-> "none"]
    ELSE IF self.wait + 1 > self.patience
    THEN [self |-> [self EXCEPT !.wait = self.wait + 1, !.stopped_epoch = e],
          model |-> IF self.best_weights = NoWeights
                    THEN [m EXCEPT !.stop_training = TRUE]
                    ELSE [m EXCEPT !.stop_training = TRUE,
                                   !.weights = self.best_weights],
          raised |-> IF self.best_weights = NoWeights THEN "ValueError" ELSE "none"]
    ELSE [self |-> [self EXCEPT !.wait = self.wait + 1],
          model |-> m, raised |-> "none"]

\* EarlyStoppingAtMinLoss.on_epoch_end: the new observer state, the new
\* model state and the exception raised, if any
EarlyStoppingAtMinLoss_on_epoch_end(self, m, e, lg) ==
    LET current == lg.loss IN
    IF "loss" \notin lg.keys
    THEN [self |-> self, model |-> m, raised |-> "TypeError"]
    ELSE IF np_less(current, self.best)
    THEN [self |-> [self EXCEPT !.best = current, !.wait = 0,
                                !.best_weights = m.weights],
          model |-> m, raised |-> "none"]
    ELSE IF self.wait + 1 >= self.patience
    THEN [self |-> [self EXCEPT !.wait = self.wait + 1, !.stopped_epoch = e],
          model |-> IF self.best_weights = NoWeights
                    THEN [m EXCEPT !.stop_training = TRUE]
                    ELSE [m EXCEPT !.stop_training = TRUE,
                                   !.weights = self.best_weights],
          raised |-> IF self.best_weights = NoWeights THEN "ValueError" ELSE "none"]
    ELSE [self |-> [self EXCEPT !.wait = self.wait + 1],
          model |-> m, raised |-> "none"]

\* EarlyStoppingAtMinLoss.on_train_end: the epoch number printed (0: nothing)
EarlyStoppingAtMinLoss_on_train_end(self) ==
    IF self.stopped_epoch > 0 THEN self.stopped_epoch + 1 ELSE 0

\* (epoch to start, learning rate) tuples
LR_SCHEDULE == << <<3, 500>>, <<6, 100>>, <<9, 50>>, <<12, 10>> >>

\* lr_schedule with "epoch <= LR_SCHEDULE[0][0]": the first entry never starts
lr_schedule_afterFirst(e, lr) ==
    IF e <= LR_SCHEDULE[1][1] \/ e > LR_SCHEDULE[Len(LR_SCHEDULE)][1]
    THEN lr
    ELSE LET hits == {i \in 1..Len(LR_SCHEDULE) : e = LR_SCHEDULE[i][1]} IN
         IF hits = {} THEN lr
         ELSE LR_SCHEDULE[CHOOSE i \in hits : \A j \in hits : i <= j][2]

\* a schedule that returns the rate of the last entry started, whatever lr is
lr_schedule_lastStarted(e, lr) ==
    LET started == {i \in 1..Len(LR_SCHEDULE) : LR_SCHEDULE[i][1] <= e} IN
    IF started = {} THEN lr
    ELSE LR_SCHEDULE[CHOOSE i \in started : \A j \in started : j <= i][2]

\* lr_schedule(epoch, lr)
lr_schedule(e, lr) ==
    IF e < LR_SCHEDULE[1][1] \/ e > LR_SCHEDULE[Len(LR_SCHEDULE)][1]
    THEN lr
    ELSE LET hits == {i \in 1..Len(LR_SCHEDULE) : e = LR_SCHEDULE[i][1]} IN
         IF hits = {} THEN lr
         ELSE LR_SCHEDULE[CHOOSE i \in hits : \A j \in hits : i <= j][2]

\* CustomLearningRateScheduler.on_epoch_begin without the hasattr test: the
\* schedule is called, and set_value on the missing attribute fails
CustomLearningRateScheduler_on_epoch_begin_unchecked(m, e) ==
    LET lr == m.lr
        scheduled == lr_schedule(e, lr)
    IN IF ~m.has_lr
       THEN [model |-> m, raised |-> "AttributeError", scheduled_lr |-> scheduled]
       ELSE [model |-> [m EXCEPT !.lr = scheduled], raised |-> "none",
             scheduled_lr |-> scheduled]

\* CustomLearningRateScheduler.on_epoch_begin asking the schedule for the
\* epoch after the one that begins
CustomLearningRateScheduler_on_epoch_begin_nextEpoch(m, e) ==
    IF ~m.has_lr
    THEN [model |-> m, raised |-> "ValueError", scheduled_lr |-> Unscheduled]
    ELSE LET lr == m.lr
             scheduled == lr_schedule(e + 1, lr)
         IN [model |-> [m EXCEPT !.lr = scheduled], raised |-> "none",
             scheduled_lr |-> scheduled]

\* CustomLearningRateScheduler.on_epoch_begin
CustomLearningRateScheduler_on_epoch_begin(m, e) ==
    IF ~m.has_lr
    THEN [model |-> m, raised |-> "ValueError", scheduled_lr |-> Unscheduled]
    ELSE LET lr == m.lr
             scheduled == lr_schedule(e, lr)
         IN [model |-> [m EXCEPT !.lr = scheduled], raised |-> "none",
             scheduled_lr |-> scheduled]

\* the keys LossAndErrorPrintingCallback reads from logs in a hook
LossAndErrorPrintingCallback_reads(hook) ==
    CASE hook \in {"on_train_batch_end", "on_test_batch_end"} -> {"loss"}
      [] hook = "on_epoch_end" -> {"loss", "mean_absolute_error"}
      [] OTHER -> {}

\* LossAndErrorPrintingCallback: logs["loss"], logs["mean_absolute_error"]
LossAndErrorPrintingCallback_hook(e) ==
    IF LossAndErrorPrintingCallback_reads(e.hook) \subseteq e.keys
    THEN "none" ELSE "KeyError"

\* CustomCallback.on_*: keys = list(logs.keys()); print(...)
CustomCallback_hook(e) == "none"

\* self.model.stop_training = True at a batch end or an epoch end
Stopper_hook(m, e, choice) ==
    IF choice /\ e.hook \in {"on_train_batch_end", "on_epoch_end"}
    THEN [m EXCEPT !.stop_training = TRUE]
    ELSE m

\* What the hook of observer `kind` for event e does: the new observer state,
\* model state, exception and output.
HookResult(kind, e, self, m, choice) ==
    LET same == [es |-> self, model |-> m, raised |-> "none", printed |-> printed,
                 scheduled_lr |-> scheduled_lr] IN
    CASE kind = "CustomCallback" ->
           [same EXCEPT !.raised = CustomCallback_hook(e)]
      [] kind = "LossAndErrorPrintingCallback" ->
           [same EXCEPT !.raised = LossAndErrorPrintingCallback_hook(e)]
      [] kind = "Stopper" ->
           [same EXCEPT !.model = Stopper_hook(m, e, choice)]
      [] kind = "CustomLearningRateScheduler" /\ e.hook = "on_epoch_begin" ->
           LET r == CustomLearningRateScheduler_on_epoch_begin(m, e.idx) IN
           [same EXCEPT !.model = r.model, !.raised = r.raised,
                        !.scheduled_lr = IF r.raised = "none" THEN r.scheduled_lr
                                         ELSE scheduled_lr]
      [] kind = "EarlyStoppingAtMinLoss" /\ e.hook = "on_train_begin" ->
           [same EXCEPT !.es = EarlyStoppingAtMinLoss_on_train_begin(self)]
      [] kind = "EarlyStoppingAtMinLoss" /\ e.hook = "on_epoch_end" ->
           LET r == EarlyStoppingAtMinLoss_on_epoch_end(self, m, e.idx, e) IN
           [same EXCEPT !.es = r.self, !.model = r.model, !.raised = r.raised]
      [] kind = "EarlyStoppingAtMinLoss" /\ e.hook = "on_train_end" ->
           [same EXCEPT !.printed = EarlyStoppingAtMinLoss_on_train_end(self)]
      [] OTHER -> same

\* --------------------------------------------------------- the run loop
\* every observer has been called for the current event and has returned
Delivered == next > Len(callbacks) /\ active = {}

\* the scope a hook begins or ends
Scope(h) ==
    CASE h \in {"on_train_begin", "on_train_end"} -> "train"
      [] h \in {"on_test_begin", "on_test_end"} -> "test"
      [] h \in {"on_predict_begin", "on_predict_end"} -> "predict"
      [] h \in {"on_epoch_begin", "on_epoch_end"} -> "epoch"
      [] h \in {"on_train_batch_begin", "on_train_batch_end"} -> "train_batch"
      [] h \in {"on_test_batch_begin", "on_test_batch_end"} -> "test_batch"
      [] h \in {"on_predict_batch_begin", "on_predict_batch_end"} -> "predict_batch"
      [] OTHER -> "none"

\* the scopes still open once event pv has been delivered: an "end" event
\* leaves the innermost one
Left(pv, op) ==
    IF pv.hook \in EndHooks /\ Len(op) > 0 THEN SubSeq(op, 1, Len(op) - 1) ELSE op

\* The run loop hands event (h, i, lg) of epoch ep to the observers; pv is the
\* event delivered before it, op the scopes open then, dn the batches done.
Deliver(pv, op, dn, h, i, lg, ep) ==
    /\ ev' = [hook |-> h, idx |-> i, keys |-> lg.keys, loss |-> lg.loss, epoch |-> ep]
    /\ prev' = pv
    /\ open' = IF h \in BeginHooks
               THEN Append(Left(pv, op), [scope |-> Scope(h), idx |-> i])
               ELSE Left(pv, op)
    /\ done' = IF h \in BatchEndHooks THEN dn + 1 ELSE dn
    /\ next' = 1
    /\ received' = <<>>
    /\ pc' = h

\* the logs of the last batch passed on to a "begin" hook
BeginLogs_lastBatch == logs

\* logs passed to a "begin" hook
BeginLogs == EmptyLogs

\* batch logs with the loss alone, the compiled metrics left out
BatchLogs_lossOnly == [keys |-> {"loss"}, loss |-> 0]

\* logs of a train or test batch
BatchLogs == [keys |-> MetricKeys, loss |-> 0]

\* logs of an epoch whose last batch left lg, with loss value l
EpochLogs(lg, l) == [lg EXCEPT !.loss = l]

\* logs of a predict batch
PredictBatchLogs == [keys |-> PredictKeys, loss |-> 0]

\* on_train_end called without logs
TrainEndLogs_none == EmptyLogs

\* logs passed to on_train_end: the logs of the last epoch
TrainEndLogs == epoch_logs

\* logs passed to on_test_end: the logs of the last test batch
TestEndLogs == logs

\* logs passed to on_predict_end
PredictEndLogs == EmptyLogs

\* the validation results stored under the keys of the training results
WithValLogs_samekeys(lg) == lg

\* epoch logs after the validation sub-run: the val_ results are added
WithValLogs(lg) == [lg EXCEPT !.keys = lg.keys \cup ValKeys]

\* a batch loop that does not look at the stop flag
BatchLoopContinues_ignoresStop == batch + 1 < steps

\* the batch loop of an epoch goes on to the next batch
BatchLoopContinues == ~model.stop_training /\ batch + 1 < steps

\* an epoch loop that does not look at the stop flag
EpochLoopContinues_ignoresStop == epoch + 1 < epochs

\* the epoch loop goes on to the next epoch
EpochLoopContinues == ~model.stop_training /\ epoch + 1 < epochs

\* number of batches of the evaluation in progress
TestSteps == IF mode = "train" THEN valSteps ELSE steps

\* hooks started without waiting for the one executing
CanCall_always == TRUE

\* a hook may be entered: the run loop calls hooks inline, one at a time
CanCall == active = {}

\* the run loop may go on: no event is being delivered
LoopMayProceed == Delivered

\* ============================================ masking and padding guide
\* Python's None, as the mask of a tensor that carries none (a mask is a
\* non-empty list of rows)
None == <<>>

\* no tensor yet
NoTensor == [layer |-> "none", mask_zero |-> FALSE, value |-> <<>>, mask |-> None]

\* the largest member of a non-empty set of numbers
Max(S) == CHOOSE m \in S : \A n \in S : n <= m

\* the tokens of the guide's raw_inputs stand for any tokens: pad_sequences
\* copies them and never looks at them; the token at place i of sequence r
raw_token(r, i) == r * (MaxLen + 1) + i

\* the list of sequences that have the lengths lens
RawInputs(lens) ==
    [r \in 1..Len(lens) |-> [i \in 1..lens[r] |-> raw_token(r, i)]]

\* pad_sequences(sequences, padding=padding, value=value): every sequence
\* brought to the length of the longest
pad_sequences(sequences, padding, value) ==
    LET maxlen == Max({Len(sequences[r]) : r \in DOMAIN sequences}) IN
    [r \in DOMAIN sequences |->
        LET n == Len(sequences[r]) IN
        [i \in 1..maxlen |->
            IF padding = "post"
            THEN (IF i <= n THEN sequences[r][i] ELSE value)
            ELSE (IF i > maxlen - n THEN sequences[r][i - (maxlen - n)] ELSE value)]]

\* the integer batches a mask generator is fed: 0 and one token that is not 0
Tokens == {0, 1}

\* tf.not_equal(t, v), element by element of a (batch, seq_len) tensor
tf_not_equal(t, v) ==
    [b \in DOMAIN t |-> [i \in DOMAIN t[b] |-> t[b][i] # v]]

\* tf.equal in the place of tf.not_equal
tf_equal(t, v) ==
    [b \in DOMAIN t |-> [i \in DOMAIN t[b] |-> t[b][i] = v]]

\* CustomEmbedding.compute_mask computing tf.equal(inputs, 0)
CustomEmbedding_compute_mask_zeros(self, t, mask) ==
    IF ~self.mask_zero THEN None ELSE tf_equal(t, 0)

\* CustomEmbedding.compute_mask(inputs, mask=None)
CustomEmbedding_compute_mask(self, t, mask) ==
    IF ~self.mask_zero THEN None ELSE tf_not_equal(t, 0)

\* layers.Embedding(mask_zero=mask_zero): the mask it attaches to its output
Embedding_compute_mask(mask_zero, t) ==
    IF ~mask_zero THEN None ELSE tf_not_equal(t, 0)

\* the embedding weights (random in the guide): one row per token, with
\* entries of both signs; no mask depends on them
embeddings == [tok \in Tokens |->
                 [f \in 1..EmbedDim |-> IF f % 2 = 1 THEN tok + 1 ELSE 0 - (tok + 1)]]

\* tf.nn.embedding_lookup(embeddings, inputs)
tf_nn_embedding_lookup(w, t) ==
    [b \in DOMAIN t |-> [i \in DOMAIN t[b] |-> w[t[b][i]]]]

\* tf.cast(tf.tile(tf.expand_dims(padded_inputs, axis=-1), [1, 1, n]), tf.float32)
unmasked_embedding(t) ==
    [b \in DOMAIN t |-> [i \in DOMAIN t[b] |-> [f \in 1..EmbedDim |-> t[b][i]]]]

\* layers.Masking(): a timestep is masked when all its features equal
\* mask_value (0.0)
Masking_compute_mask(t) ==
    [b \in DOMAIN t |-> [i \in DOMAIN t[b] |-> \E f \in DOMAIN t[b][i] : t[b][i][f] # 0]]

\* a layer that passes the mask on whether or not it opted in
Layer_compute_mask_passesAlways(supports_masking, mask) == mask

\* Layer.compute_mask of a layer that does not define it: the current mask
\* when the layer set supports_masking, no mask otherwise
Layer_compute_mask(supports_masking, mask) ==
    IF supports_masking THEN mask ELSE None

\* tf.nn.relu on a (batch, seq_len, features) tensor
tf_nn_relu(t) ==
    [b \in DOMAIN t |-> [i \in DOMAIN t[b] |->
        [f \in DOMAIN t[b][i] |-> IF t[b][i][f] > 0 THEN t[b][i][f] ELSE 0]]]

\* MyActivation.call
MyActivation_call(t) == tf_nn_relu(t)

\* the time dimension of a tensor (axis 1)
TimeDim(t) == Len(t[1])

\* tf.split(t, n, axis=1) is defined when n divides the time dimension
tf_split_defined(t, n) == TimeDim(t) % n = 0

\* a split that cuts one step late
tf_split_late(t, n) ==
    LET w == TimeDim(t) \div n IN
    [k \in 1..n |-> [b \in DOMAIN t |->
        IF k = 1 THEN SubSeq(t[b], 1, w + 1) ELSE SubSeq(t[b], w + 2, TimeDim(t))]]

\* tf.split(t, n, axis=1): n tensors of equal length along the time axis
tf_split(t, n) ==
    LET w == TimeDim(t) \div n IN
    [k \in 1..n |-> [b \in DOMAIN t |-> SubSeq(t[b], (k - 1) * w + 1, k * w)]]

\* TemporalSplit.call
TemporalSplit_call(t) == tf_split(t, 2)

\* TemporalSplit.compute_mask with the halves cut one step late
TemporalSplit_compute_mask_late(t, mask) ==
    IF mask = None THEN None ELSE tf_split_late(mask, 2)

\* TemporalSplit.compute_mask(inputs, mask=None)
TemporalSplit_compute_mask(t, mask) ==
    IF mask = None THEN None ELSE tf_split(mask, 2)

\* Values of the softmax are exact fractions [num, den]; a fraction with
\* den = 0 is what the float division gives for it: NaN for 0/0, an infinity
\* otherwise.  tf.exp is modelled in base 2, in units of 1/ExpUnit, which
\* keeps it integer on -MaxLogit..MaxLogit and, like e^v, positive, strictly
\* increasing and above v.
ExpUnit == 2 ^ MaxLogit

\* tf.exp(v), in units of 1/ExpUnit
tf_exp(v) == 2 ^ (v + MaxLogit)

\* the sum of a sequence of integers
RECURSIVE SumSeq(_)
SumSeq(q) == IF q = <<>> THEN 0 ELSE q[1] + SumSeq(Tail(q))

\* tf.reduce_sum(t, axis=1, keepdims=True) of a (batch, seq_len, 1) tensor
tf_reduce_sum(t) == [b \in DOMAIN t |-> SumSeq(t[b])]

\* a / s, a in units of 1/ExpUnit
tf_divide(a, s) == [num |-> a, den |-> s * ExpUnit]

\* TemporalSoftmax.call(inputs, mask) on a (batch, seq_len, 1) tensor
TemporalSoftmax_call(t, mask) ==
    LET broadcast_float_mask ==
            [b \in DOMAIN t |-> [i \in DOMAIN t[b] |-> IF mask[b][i] THEN 1 ELSE 0]]
        inputs_exp ==
            [b \in DOMAIN t |-> [i \in DOMAIN t[b] |->
                tf_exp(t[b][i]) * broadcast_float_mask[b][i]]]
        inputs_sum ==
            tf_reduce_sum([b \in DOMAIN t |-> [i \in DOMAIN t[b] |->
                t[b][i] * broadcast_float_mask[b][i]]])
    IN [b \in DOMAIN t |-> [i \in DOMAIN t[b] |->
            tf_divide(inputs_exp[b][i], inputs_sum[b])]]

\* the guide's cells not run
NoCell ==
    /\ cell = "none"
    /\ raw_inputs = <<>>
    /\ padded_inputs = <<>>
    /\ inputs = <<>>
    /\ x = NoTensor
    /\ y = NoTensor
    /\ outputs = <<>>

\* lr_schedule has not been called
NoArgs == [epoch |-> 0, lr |-> Unscheduled]

NoCall ==
    /\ args = NoArgs
    /\ scheduled_lr = Unscheduled

\* ================================================= the callbacks guide
\* no fit, evaluate or predict has run
NoRun ==
    /\ callbacks = <<>>
    /\ pc = "idle"
    /\ mode = "none"
    /\ epochs = 0 /\ steps = 0 /\ valSteps = 0
    /\ epoch = 0 /\ batch = 0
    /\ logs = EmptyLogs /\ epoch_logs = EmptyLogs
    /\ ev = NoEvent /\ next = 1 /\ active = {}
    /\ model = get_model
    /\ updates = 0
    /\ es = EarlyStoppingAtMinLoss_init(0)
    /\ raised = "none"
    /\ printed = 0
    /\ prev = NoEvent
    /\ open = <<>>
    /\ done = 0
    /\ stopAt = NoStop
    /\ lastWrite = NoWrite
    /\ received = <<>>
    /\ hist = NoHistory

Init == NoRun /\ NoCell /\ NoCall

\* fit, evaluate or predict may be called: no run is in progress (none was
\* started, the last one returned, or it was ended by an exception)
MayStart == pc \in {"idle", "raised"}

\* State every run starts from; self is the EarlyStoppingAtMinLoss instance
\* in cbs (a new one, or one kept from an earlier fit).
RunStart(cbs, self, md, s) ==
    /\ MayStart
    /\ callbacks' = cbs
    /\ mode' = md
    /\ steps' = s
    /\ epoch' = 0 /\ batch' = 0
    /\ logs' = EmptyLogs /\ epoch_logs' = EmptyLogs
    /\ active' = {}
    /\ raised' = "none"
    /\ printed' = 0
    /\ stopAt' = NoStop
    /\ lastWrite' = NoWrite
    /\ hist' = NoHistory
    /\ es' = self
    /\ scheduled_lr' = Unscheduled

\* m.fit(epochs=e, steps_per_epoch=s, callbacks=cbs) of a freshly compiled
\* model m with v validation batches; self is the EarlyStoppingAtMinLoss
\* instance in cbs
FitOf(m, cbs, self, e, s, v) ==
    /\ RunStart(cbs, self, "train", s)
    /\ epochs' = e
    /\ valSteps' = v
    /\ model' = m
    /\ updates' = 0
    /\ Deliver(NoEvent, <<>>, 0, "on_train_begin", 0, BeginLogs, 0)
    /\ UNCHANGED <<nbvars, args>>

\* model = get_model(); model.fit(epochs=e, steps_per_epoch=s, callbacks=cbs)
\* with v validation batches; EarlyStoppingAtMinLoss(patience=p)
Fit(cbs, p, e, s, v) ==
    FitOf(get_model, cbs, EarlyStoppingAtMinLoss_init(p), e, s, v)

\* model.evaluate(callbacks=cbs) over s batches
Evaluate(cbs, s) ==
    /\ RunStart(cbs, EarlyStoppingAtMinLoss_init(0), "test", s)
    /\ epochs' = 0
    /\ valSteps' = 0
    /\ Deliver(NoEvent, <<>>, 0, "on_test_begin", 0, BeginLogs, 0)
    /\ UNCHANGED <<model, updates, nbvars, args>>

\* model.predict(callbacks=cbs) over s batches
Predict(cbs, s) ==
    /\ RunStart(cbs, EarlyStoppingAtMinLoss_init(0), "predict", s)
    /\ epochs' = 0
    /\ valSteps' = 0
    /\ Deliver(NoEvent, <<>>, 0, "on_predict_begin", 0, BeginLogs, 0)
    /\ UNCHANGED <<model, updates, nbvars, args>>

\* a run loop that stops calling the observers of an event once the stop
\* flag is set
HookCall_untilStopped ==
    /\ pc \in Hooks
    /\ next <= Len(callbacks)
    /\ CanCall
    /\ IF model.stop_training
       THEN /\ next' = Len(callbacks) + 1
            /\ UNCHANGED <<active, received>>
       ELSE /\ active' = active \cup {next}
            /\ received' = Append(received, next)
            /\ next' = next + 1
    /\ UNCHANGED <<callbacks, pc, mode, epochs, steps, valSteps, epoch,
                   batch, logs, epoch_logs, ev, model, updates, es, raised,
                   printed, prev, open, done, stopAt, lastWrite, hist, nbvars, fnvars>>

\* the run loop calls the hook of the next observer
HookCall ==
    /\ pc \in Hooks
    /\ next <= Len(callbacks)
    /\ CanCall
    /\ active' = active \cup {next}
    /\ received' = Append(received, next)
    /\ next' = next + 1
    /\ UNCHANGED <<callbacks, pc, mode, epochs, steps, valSteps, epoch,
                   batch, logs, epoch_logs, ev, model, updates, es, raised,
                   printed, prev, open, done, stopAt, lastWrite, hist, nbvars, fnvars>>

\* the hook of observer i runs and returns (or raises)
HookReturn(i, choice) ==
    /\ i \in active
    /\ LET r == HookResult(callbacks[i], ev, es, model, choice) IN
       /\ es' = r.es
       /\ model' = r.model
       /\ raised' = r.raised
       /\ printed' = r.printed
       /\ scheduled_lr' = r.scheduled_lr
       /\ pc' = IF r.raised = "none" THEN pc ELSE "raised"
       /\ stopAt' = IF ~model.stop_training /\ r.model.stop_training
                    THEN [hook |-> ev.hook, epoch |-> epoch, batch |-> batch]
                    ELSE stopAt
       /\ lastWrite' = [observer |-> callbacks[i], hook |-> ev.hook,
                        fields |-> {f \in DOMAIN model : model[f] # r.model[f]},
                        stop |-> r.model.stop_training]
    /\ active' = active \ {i}
    /\ UNCHANGED <<callbacks, mode, epochs, steps, valSteps, epoch, batch,
                   logs, epoch_logs, ev, next, updates, prev, open, done, hist,
                   received, nbvars, args>>

\* on_epoch_begin: the first epoch, or the next one
StartEpoch ==
    /\ LoopMayProceed
    /\ \/ /\ pc = "on_train_begin"
          /\ epochs > 0
          /\ epoch' = 0
       \/ /\ pc = "on_epoch_end"
          /\ EpochLoopContinues
          /\ epoch' = epoch + 1
    /\ epoch_logs' = EmptyLogs
    /\ Deliver(ev, open, done, "on_epoch_begin", epoch', BeginLogs, epoch')
    /\ UNCHANGED <<callbacks, mode, epochs, steps, valSteps, batch, logs,
                   active, model, updates, es, raised, printed,
                   stopAt, lastWrite, hist, nbvars, fnvars>>

\* on_train_batch_begin with batch numbers counted from 1
TrainBatchBegin_fromOne ==
    /\ LoopMayProceed
    /\ \/ /\ pc = "on_epoch_begin"
          /\ batch' = 1
       \/ /\ pc = "on_train_batch_end"
          /\ ~model.stop_training /\ batch < steps
          /\ batch' = batch + 1
    /\ Deliver(ev, open, done, "on_train_batch_begin", batch', BeginLogs, epoch)
    /\ UNCHANGED <<callbacks, mode, epochs, steps, valSteps, epoch, logs,
                   epoch_logs, active, model, updates, es, raised, printed,
                   stopAt, lastWrite, hist, nbvars, fnvars>>

\* on_train_batch_begin: the first batch of the epoch, or the next one
TrainBatchBegin ==
    /\ LoopMayProceed
    /\ \/ /\ pc = "on_epoch_begin"
          /\ batch' = 0
       \/ /\ pc = "on_train_batch_end"
          /\ BatchLoopContinues
          /\ batch' = batch + 1
    /\ Deliver(ev, open, done, "on_train_batch_begin", batch', BeginLogs, epoch)
    /\ UNCHANGED <<callbacks, mode, epochs, steps, valSteps, epoch, logs,
                   epoch_logs, active, model, updates, es, raised, printed,
                   stopAt, lastWrite, hist, nbvars, fnvars>>

\* the gradient step of the batch, then on_train_batch_end with its logs
TrainStep ==
    /\ LoopMayProceed
    /\ pc = "on_train_batch_begin"
    /\ updates' = updates + 1
    /\ model' = [model EXCEPT !.weights = updates + 1]
    /\ logs' = BatchLogs
    /\ Deliver(ev, open, done, "on_train_batch_end", batch, logs', epoch)
    /\ UNCHANGED <<callbacks, mode, epochs, steps, valSteps, epoch, batch,
                   epoch_logs, active, es, raised, printed, stopAt, lastWrite, hist, nbvars, fnvars>>

\* the batches of the epoch are over and fit has validation data: on_test_begin
StartValidation ==
    /\ LoopMayProceed
    /\ pc = "on_train_batch_end"
    /\ ~BatchLoopContinues
    /\ valSteps > 0
    /\ Deliver(ev, open, done, "on_test_begin", 0, BeginLogs, epoch)
    /\ UNCHANGED <<callbacks, mode, epochs, steps, valSteps, epoch, batch,
                   logs, epoch_logs, active, model, updates, es, raised, printed, stopAt,
                   lastWrite, hist, nbvars, fnvars>>

\* on_test_batch_begin: the first batch of the evaluation, or the next one
TestBatchBegin ==
    /\ LoopMayProceed
    /\ \/ /\ pc = "on_test_begin"
          /\ batch' = 0
       \/ /\ pc = "on_test_batch_end"
          /\ batch + 1 < TestSteps
          /\ batch' = batch + 1
    /\ Deliver(ev, open, done, "on_test_batch_begin", batch', BeginLogs, epoch)
    /\ UNCHANGED <<callbacks, mode, epochs, steps, valSteps, epoch, logs,
                   epoch_logs, active, model, updates, es, raised, printed,
                   stopAt, lastWrite, hist, nbvars, fnvars>>

\* the test step of the batch, then on_test_batch_end with its logs
TestStep ==
    /\ LoopMayProceed
    /\ pc = "on_test_batch_begin"
    /\ logs' = BatchLogs
    /\ Deliver(ev, open, done, "on_test_batch_end", batch, logs', epoch)
    /\ UNCHANGED <<callbacks, mode, epochs, steps, valSteps, epoch, batch,
                   epoch_logs, active, model, updates, es, raised, printed,
                   stopAt, lastWrite, hist, nbvars, fnvars>>

\* the evaluation's batches are over: on_test_end with the last logs
TestEnd ==
    /\ LoopMayProceed
    /\ pc = "on_test_batch_end"
    /\ ~(batch + 1 < TestSteps)
    /\ Deliver(ev, open, done, "on_test_end", 0, TestEndLogs, epoch)
    /\ UNCHANGED <<callbacks, mode, epochs, steps, valSteps, epoch, batch,
                   logs, epoch_logs, active, model, updates, es, raised,
                   printed, stopAt, lastWrite, hist, nbvars, fnvars>>

\* on_epoch_end with the epoch's logs, after the batches (and the validation)
EpochEnd(l) ==
    /\ LoopMayProceed
    /\ \/ /\ pc = "on_train_batch_end"
          /\ ~BatchLoopContinues
          /\ valSteps = 0
          /\ epoch_logs' = EpochLogs(logs, l)
       \/ /\ pc = "on_test_end"
          /\ mode = "train"
          /\ epoch_logs' = WithValLogs(EpochLogs(logs, l))
    /\ Deliver(ev, open, done, "on_epoch_end", epoch, epoch_logs', epoch)
    /\ hist' = IF "EarlyStoppingAtMinLoss" \in Range(callbacks)
               THEN EpochOver(hist, l, model.weights)
               ELSE hist
    /\ UNCHANGED <<callbacks, mode, epochs, steps, valSteps, epoch, batch,
                   logs, active, model, updates, es, raised, printed, stopAt,
                   lastWrite, nbvars, fnvars>>

\* on_train_end delivered straight from the batch at which a stop was
\* requested, the epoch's on_epoch_end left out
TrainEnd_withoutEpochEnd ==
    /\ LoopMayProceed
    /\ \/ /\ pc = "on_train_begin"
          /\ epochs = 0
       \/ /\ pc = "on_epoch_end"
          /\ ~(~model.stop_training /\ epoch + 1 < epochs)
       \/ /\ pc = "on_train_batch_end"
          /\ model.stop_training
    /\ Deliver(ev, open, done, "on_train_end", 0, epoch_logs, epoch)
    /\ UNCHANGED <<callbacks, mode, epochs, steps, valSteps, epoch, batch,
                   logs, epoch_logs, active, model, updates, es, raised,
                   printed, stopAt, lastWrite, hist, nbvars, fnvars>>

\* on_train_end delivered when the epochs are over, and not after a stop
TrainEnd_unlessStopped ==
    /\ LoopMayProceed
    /\ \/ /\ pc = "on_train_begin"
          /\ epochs = 0
       \/ /\ pc = "on_epoch_end"
          /\ ~model.stop_training
          /\ ~(epoch + 1 < epochs)
    /\ Deliver(ev, open, done, "on_train_end", 0, TrainEndLogs, epoch)
    /\ UNCHANGED <<callbacks, mode, epochs, steps, valSteps, epoch, batch,
                   logs, epoch_logs, active, model, updates, es, raised,
                   printed, stopAt, lastWrite, hist, nbvars, fnvars>>

\* the epochs are over, or a stop was requested: on_train_end
TrainEnd ==
    /\ LoopMayProceed
    /\ \/ /\ pc = "on_train_begin"
          /\ epochs = 0
       \/ /\ pc = "on_epoch_end"
          /\ ~EpochLoopContinues
    /\ Deliver(ev, open, done, "on_train_end", 0, TrainEndLogs, epoch)
    /\ UNCHANGED <<callbacks, mode, epochs, steps, valSteps, epoch, batch,
                   logs, epoch_logs, active, model, updates, es, raised,
                   printed, stopAt, lastWrite, hist, nbvars, fnvars>>

\* on_predict_batch_begin: the first batch, or the next one
PredictBatchBegin ==
    /\ LoopMayProceed
    /\ \/ /\ pc = "on_predict_begin"
          /\ batch' = 0
       \/ /\ pc = "on_predict_batch_end"
          /\ batch + 1 < steps
          /\ batch' = batch + 1
    /\ Deliver(ev, open, done, "on_predict_batch_begin", batch', BeginLogs, epoch)
    /\ UNCHANGED <<callbacks, mode, epochs, steps, valSteps, epoch, logs,
                   epoch_logs, active, model, updates, es, raised, printed,
                   stopAt, lastWrite, hist, nbvars, fnvars>>

\* the predict step reporting through the test hook
PredictStep_testHook ==
    /\ LoopMayProceed
    /\ pc = "on_predict_batch_begin"
    /\ logs' = [keys |-> PredictKeys, loss |-> 0]
    /\ Deliver(ev, open, done, "on_test_batch_end", batch, logs', epoch)
    /\ UNCHANGED <<callbacks, mode, epochs, steps, valSteps, epoch, batch,
                   epoch_logs, active, model, updates, es, raised, printed,
                   stopAt, lastWrite, hist, nbvars, fnvars>>

\* the predict step of the batch, then on_predict_batch_end with the outputs
PredictStep ==
    /\ LoopMayProceed
    /\ pc = "on_predict_batch_begin"
    /\ logs' = PredictBatchLogs
    /\ Deliver(ev, open, done, "on_predict_batch_end", batch, logs', epoch)
    /\ UNCHANGED <<callbacks, mode, epochs, steps, valSteps, epoch, batch,
                   epoch_logs, active, model, updates, es, raised, printed,
                   stopAt, lastWrite, hist, nbvars, fnvars>>

\* the predict batches are over: on_predict_end
PredictEnd ==
    /\ LoopMayProceed
    /\ pc = "on_predict_batch_end"
    /\ ~(batch + 1 < steps)
    /\ Deliver(ev, open, done, "on_predict_end", 0, PredictEndLogs, epoch)
    /\ UNCHANGED <<callbacks, mode, epochs, steps, valSteps, epoch, batch,
                   logs, epoch_logs, active, model, updates, es, raised,
                   printed, stopAt, lastWrite, hist, nbvars, fnvars>>

\* fit, evaluate or predict returns; the model is kept (and, for the record,
\* the run's mode and the name of its last event), and self is the
\* EarlyStoppingAtMinLoss instance the caller is left with
ReturnLeaving(self) ==
    /\ LoopMayProceed
    /\ \/ pc \in {"on_train_end", "on_predict_end"}
       \/ pc = "on_test_end" /\ mode = "test"
    /\ pc' = "idle"
    /\ ev' = NoEvent
    /\ callbacks' = <<>>
    /\ epochs' = 0 /\ steps' = 0 /\ valSteps' = 0
    /\ epoch' = 0 /\ batch' = 0
    /\ logs' = EmptyLogs /\ epoch_logs' = EmptyLogs
    /\ next' = 1
    /\ es' = self
    /\ printed' = 0
    /\ prev' = [NoEvent EXCEPT !.hook = ev.hook]
    /\ open' = <<>>
    /\ done' = 0
    /\ stopAt' = NoStop
    /\ lastWrite' = NoWrite
    /\ hist' = NoHistory
    /\ received' = <<>>
    /\ scheduled_lr' = Unscheduled
    /\ UNCHANGED <<mode, active, model, updates, raised, nbvars, args>>

\* fit, evaluate or predict returns; the observers, built in the call's
\* argument list, are dropped
RunReturn == ReturnLeaving(EarlyStoppingAtMinLoss_init(0))

Next ==
    \/ /\ MayStart
       /\ \E cbs \in CallbackLists, p \in 0..MaxPatience, e \in 0..MaxEpochs,
             s \in 1..MaxSteps, v \in 0..MaxValSteps :
             /\ ("EarlyStoppingAtMinLoss" \in Range(cbs) \/ p = 0)
             /\ Fit(cbs, p, e, s, v)
    \/ /\ MayStart
       /\ \E cbs \in CallbackLists, s \in 1..MaxSteps : Evaluate(cbs, s)
    \/ /\ MayStart
       /\ \E cbs \in CallbackLists, s \in 1..MaxSteps : Predict(cbs, s)
    \/ HookCall
    \/ \E i \in 1..Len(callbacks), choice \in BOOLEAN : HookReturn(i, choice)
    \/ StartEpoch
    \/ TrainBatchBegin
    \/ TrainStep
    \/ StartValidation
    \/ TestBatchBegin
    \/ TestStep
    \/ TestEnd
    \/ \E l \in Losses : EpochEnd(l)
    \/ TrainEnd
    \/ PredictBatchBegin
    \/ PredictStep
    \/ PredictEnd
    \/ RunReturn

Spec == Init /\ [][Next]_vars

\* ------------------------------------------- the early-stopping guide's run
\* callbacks=[LossAndErrorPrintingCallback(), EarlyStoppingAtMinLoss(patience=p)]
ESCallbacks == <<"LossAndErrorPrintingCallback", "EarlyStoppingAtMinLoss">>

\* The fit of the early-stopping example, over up to MaxESEpochs epochs of one
\* batch, for every patience and every sequence of epoch losses, NaN included.
NextES ==
    \/ \E p \in 0..MaxPatience, e \in 1..MaxESEpochs : Fit(ESCallbacks, p, e, 1, 0)
    \/ HookCall
    \/ \E i \in 1..Len(callbacks) : HookReturn(i, FALSE)
    \/ StartEpoch
    \/ TrainBatchBegin
    \/ TrainStep
    \/ \E l \in Losses \cup {NaN} : EpochEnd(l)
    \/ TrainEnd
    \/ RunReturn

SpecES == Init /\ [][NextES]_vars

\* ------------------------------------------ the learning-rate guide's run
\* callbacks=[LossAndErrorPrintingCallback(), CustomLearningRateScheduler(lr_schedule)]
LRCallbacks == <<"LossAndErrorPrintingCallback", "CustomLearningRateScheduler">>

\* The fit of the learning-rate example over up to MaxLREpochs epochs, which
\* go past the last start epoch of LR_SCHEDULE.
NextLR ==
    \/ \E e \in 1..MaxLREpochs, s \in 1..MaxSteps : Fit(LRCallbacks, 0, e, s, 0)
    \/ HookCall
    \/ \E i \in 1..Len(callbacks) : HookReturn(i, FALSE)
    \/ StartEpoch
    \/ TrainBatchBegin
    \/ TrainStep
    \/ \E l \in Losses : EpochEnd(l)
    \/ TrainEnd
    \/ RunReturn

SpecLR == Init /\ [][NextLR]_vars

\* ------------------------------------------- the fit with validation data
\* callbacks=[CustomCallback()], and the same with an observer that may
\* request a stop
ValCallbacks == { <<"CustomCallback">>, <<"CustomCallback", "Stopper">> }

\* model.fit(..., validation_split=0.5, callbacks=[CustomCallback()]): fits of
\* up to MaxEpochs epochs with a validation set of up to MaxValBatches batches
\* (0: no validation data)
NextVal ==
    \/ /\ MayStart
       /\ \E cbs \in ValCallbacks, e \in 1..MaxEpochs, s \in 1..MaxSteps,
             v \in 0..MaxValBatches : Fit(cbs, 0, e, s, v)
    \/ HookCall
    \/ \E i \in 1..Len(callbacks), choice \in BOOLEAN : HookReturn(i, choice)
    \/ StartEpoch
    \/ TrainBatchBegin
    \/ TrainStep
    \/ StartValidation
    \/ TestBatchBegin
    \/ TestStep
    \/ TestEnd
    \/ \E l \in Losses : EpochEnd(l)
    \/ TrainEnd
    \/ RunReturn

SpecVal == Init /\ [][NextVal]_vars

\* --------------------- one EarlyStoppingAtMinLoss instance in several fits
\* model.fit(..., callbacks=[LossAndErrorPrintingCallback(), cb]) with the
\* instance cb of an earlier fit: what __init__ set and on_train_begin does
\* not set again (patience, best_weights) is as the earlier fit left it
Refit(e) ==
    /\ mode = "train"
    /\ FitOf(get_model, ESCallbacks, es, e, 1, 0)

\* fit returns and the caller keeps the EarlyStoppingAtMinLoss instance
RunReturnKept == ReturnLeaving(es)

\* Fits of up to MaxReuseEpochs epochs of one batch, with a new
\* EarlyStoppingAtMinLoss or with the one of the fit before, for every
\* sequence of epoch losses, NaN included.
NextReuse ==
    \/ \E p \in 0..MaxPatience, e \in 1..MaxReuseEpochs : Fit(ESCallbacks, p, e, 1, 0)
    \/ \E e \in 1..MaxReuseEpochs : Refit(e)
    \/ HookCall
    \/ \E i \in 1..Len(callbacks) : HookReturn(i, FALSE)
    \/ StartEpoch
    \/ TrainBatchBegin
    \/ TrainStep
    \/ \E l \in Losses \cup {NaN} : EpochEnd(l)
    \/ TrainEnd
    \/ RunReturnKept

SpecReuse == Init /\ [][NextReuse]_vars

\* ------------------------- the scheduler and the optimizer's "lr" attribute
\* The fit of the learning-rate example, of a model whose optimizer has the
\* "lr" attribute and of one whose optimizer has not.
NextOptimizer ==
    \/ \E m \in {get_model, model_without_lr}, e \in 1..MaxLREpochs :
          FitOf(m, LRCallbacks, EarlyStoppingAtMinLoss_init(0), e, 1, 0)
    \/ HookCall
    \/ \E i \in 1..Len(callbacks) : HookReturn(i, FALSE)
    \/ StartEpoch
    \/ TrainBatchBegin
    \/ TrainStep
    \/ \E l \in Losses : EpochEnd(l)
    \/ TrainEnd
    \/ RunReturn

SpecOptimizer == Init /\ [][NextOptimizer]_vars

\* ------------------------------------------------- runs that go on to end
\* one step of the run in progress: a hook is called or returns, or the run
\* loop goes on to its next lifecycle point
LoopStep ==
    \/ HookCall
    \/ \E i \in 1..Len(callbacks), choice \in BOOLEAN : HookReturn(i, choice)
    \/ StartEpoch
    \/ TrainBatchBegin
    \/ TrainStep
    \/ StartValidation
    \/ TestBatchBegin
    \/ TestStep
    \/ TestEnd
    \/ \E l \in Losses \cup {NaN} : EpochEnd(l)
    \/ TrainEnd
    \/ PredictBatchBegin
    \/ PredictStep
    \/ PredictEnd
    \/ RunReturn

\* the observer lists of the runs below: the early-stopping example, an
\* observer that may request a stop at a batch end or an epoch end, and the
\* learning-rate example
LiveCallbacks == {ESCallbacks, <<"CustomCallback", "Stopper">>, LRCallbacks}

\* Fits, evaluations and predictions; the fits with and without validation
\* data, with epoch losses that may be NaN and with an optimizer that may have
\* no "lr" attribute.
NextLive ==
    \/ /\ MayStart
       /\ \E m \in {get_model, model_without_lr}, cbs \in LiveCallbacks,
             p \in 0..MaxPatience, e \in 0..MaxEpochs, v \in 0..MaxValSteps :
             /\ (cbs = ESCallbacks \/ p = 0)
             /\ (cbs = LRCallbacks \/ m = get_model)
             /\ FitOf(m, cbs, EarlyStoppingAtMinLoss_init(p), e, 1, v)
    \/ \E s \in 1..MaxSteps : Evaluate(<<"CustomCallback">>, s)
    \/ \E s \in 1..MaxSteps : Predict(<<"CustomCallback">>, s)
    \/ LoopStep

\* The run loop is sequential code and every hook of the guide returns or
\* raises: a run in progress keeps taking steps.  When fit, evaluate or
\* predict is called next is up to the caller.
SpecLive == Init /\ [][NextLive]_vars /\ WF_vars(LoopStep)

\* ------------------------------------------------------ several observers
\* callbacks lists of two and three observers: those of the early-stopping
\* and learning-rate examples, and lists in which an observer that sets the
\* stop flag comes before other observers
ObserverLists ==
    { ESCallbacks, LRCallbacks,
      <<"EarlyStoppingAtMinLoss", "LossAndErrorPrintingCallback">>,
      <<"Stopper", "CustomCallback", "Stopper">> }

\* Fits, evaluations and predictions with the lists of ObserverLists.
NextObservers ==
    \/ /\ MayStart
       /\ \E cbs \in ObserverLists, p \in 0..MaxPatience, e \in 1..MaxEpochs,
             s \in 1..MaxSteps :
             /\ ("EarlyStoppingAtMinLoss" \in Range(cbs) \/ p = 0)
             /\ Fit(cbs, p, e, s, 0)
    \/ \E cbs \in ObserverLists : Evaluate(cbs, 1)
    \/ \E cbs \in ObserverLists : Predict(cbs, 1)
    \/ HookCall
    \/ \E i \in 1..Len(callbacks), choice \in BOOLEAN : HookReturn(i, choice)
    \/ StartEpoch
    \/ TrainBatchBegin
    \/ TrainStep
    \/ TestBatchBegin
    \/ TestStep
    \/ TestEnd
    \/ \E l \in Losses : EpochEnd(l)
    \/ TrainEnd
    \/ PredictBatchBegin
    \/ PredictStep
    \/ PredictEnd
    \/ RunReturn

SpecObservers == Init /\ [][NextObservers]_vars

\* ------------------------------------------------ lr_schedule on its own
\* the rates lr_schedule is called with: the optimizer's initial rate and the
\* rates of LR_SCHEDULE
Rates == {InitialLR} \cup {LR_SCHEDULE[i][2] : i \in 1..Len(LR_SCHEDULE)}

\* lr_schedule is about to be called with an epoch from 0 to MaxLREpochs
\* (past the last start epoch) and a rate
InitSchedule ==
    /\ NoRun
    /\ NoCell
    /\ args \in [epoch : 0..MaxLREpochs, lr : Rates]
    /\ scheduled_lr = Unscheduled

\* scheduled_lr = lr_schedule(epoch, lr)
LrSchedule ==
    /\ args # NoArgs
    /\ scheduled_lr = Unscheduled
    /\ scheduled_lr' = lr_schedule(args.epoch, args.lr)
    /\ UNCHANGED <<fitvars, nbvars, args>>

NextSchedule == LrSchedule

SpecSchedule == InitSchedule /\ [][NextSchedule]_vars

\* ================================ the masking and padding guide: the cells
\* the integer batches of shape (batch, seq_len), batch * seq_len <= MaxCells
Batches ==
    UNION { [1..b -> [1..t -> Tokens]] :
              <<b, t>> \in {bt \in (1..MaxCells) \X (1..MaxCells) :
                               bt[1] * bt[2] <= MaxCells} }

\* the layers that generate a mask from their input
Generators == {"Embedding", "CustomEmbedding", "Masking"}

\* an integer batch, zero-padded or not, is about to enter a mask generator
InitMask ==
    /\ NoRun
    /\ NoCall
    /\ cell = "inputs"
    /\ inputs \in Batches
    /\ raw_inputs = <<>> /\ padded_inputs = <<>>
    /\ x = NoTensor /\ y = NoTensor
    /\ outputs = <<>>

\* x = layers.Embedding(..., mask_zero=mz)(inputs)
EmbeddingCell(mz) ==
    /\ cell = "inputs"
    /\ x' = [layer |-> "Embedding", mask_zero |-> mz,
             value |-> tf_nn_embedding_lookup(embeddings, inputs),
             mask |-> Embedding_compute_mask(mz, inputs)]
    /\ cell' = "Embedding"
    /\ UNCHANGED <<fitvars, fnvars, raw_inputs, padded_inputs, inputs, y, outputs>>

\* layer = CustomEmbedding(..., mask_zero=mz); y = layer(x);
\* mask = layer.compute_mask(x)
CustomEmbeddingCell(mz) ==
    /\ cell = "inputs"
    /\ LET self == [mask_zero |-> mz] IN
       x' = [layer |-> "CustomEmbedding", mask_zero |-> mz,
             value |-> tf_nn_embedding_lookup(embeddings, inputs),
             mask |-> CustomEmbedding_compute_mask(self, inputs, None)]
    /\ cell' = "CustomEmbedding"
    /\ UNCHANGED <<fitvars, fnvars, raw_inputs, padded_inputs, inputs, y, outputs>>

\* masked_embedding = layers.Masking()(unmasked_embedding)
MaskingCell ==
    /\ cell = "inputs"
    /\ x' = [layer |-> "Masking", mask_zero |-> FALSE,
             value |-> unmasked_embedding(inputs),
             mask |-> Masking_compute_mask(unmasked_embedding(inputs))]
    /\ cell' = "Masking"
    /\ UNCHANGED <<fitvars, fnvars, raw_inputs, padded_inputs, inputs, y, outputs>>

\* x = MyActivation()(x): a custom layer that set supports_masking = True
MyActivationCell ==
    /\ cell \in Generators
    /\ y' = [layer |-> "MyActivation", mask_zero |-> FALSE,
             value |-> MyActivation_call(x.value),
             mask |-> Layer_compute_mask(TRUE, x.mask)]
    /\ cell' = "MyActivation"
    /\ UNCHANGED <<fitvars, fnvars, raw_inputs, padded_inputs, inputs, x, outputs>>

\* the same layer without "self.supports_masking = True" and without a
\* compute_mask of its own
PlainActivationCell ==
    /\ cell \in Generators
    /\ y' = [layer |-> "PlainActivation", mask_zero |-> FALSE,
             value |-> MyActivation_call(x.value),
             mask |-> Layer_compute_mask(FALSE, x.mask)]
    /\ cell' = "PlainActivation"
    /\ UNCHANGED <<fitvars, fnvars, raw_inputs, padded_inputs, inputs, x, outputs>>

\* first_half, second_half = TemporalSplit()(x); an odd time dimension makes
\* tf.split raise
TemporalSplitCell ==
    /\ cell \in Generators
    /\ IF tf_split_defined(x.value, 2)
       THEN /\ y' = [layer |-> "TemporalSplit", mask_zero |-> FALSE,
                     value |-> TemporalSplit_call(x.value),
                     mask |-> TemporalSplit_compute_mask(x.value, x.mask)]
            /\ cell' = "TemporalSplit"
       ELSE /\ y' = y
            /\ cell' = "InvalidArgumentError"
    /\ UNCHANGED <<fitvars, fnvars, raw_inputs, padded_inputs, inputs, x, outputs>>

\* outputs = layers.LSTM(32)(x): a mask consumer, whose call is passed the
\* mask of its input
LSTMCell ==
    /\ cell \in {"MyActivation", "PlainActivation"}
    /\ outputs' = [layer |-> "LSTM", mask |-> y.mask]
    /\ cell' = "LSTM"
    /\ UNCHANGED <<fitvars, fnvars, raw_inputs, padded_inputs, inputs, x, y>>

NextMask ==
    \/ \E mz \in BOOLEAN : EmbeddingCell(mz)
    \/ \E mz \in BOOLEAN : CustomEmbeddingCell(mz)
    \/ MaskingCell
    \/ MyActivationCell
    \/ PlainActivationCell
    \/ TemporalSplitCell
    \/ LSTMCell

SpecMask == InitMask /\ [][NextMask]_vars

\* ------------------------------------------------- the temporal softmax
\* the values of a unit of the Dense(1) layer
Logits == (0 - MaxLogit)..MaxLogit

\* the shapes (batch, seq_len) with batch * seq_len <= MaxLogitCells
LogitShapes ==
    {bt \in (1..MaxLogitCells) \X (1..MaxLogitCells) : bt[1] * bt[2] <= MaxLogitCells}

\* x = layers.Dense(1)(x): a (batch, seq_len, 1) tensor that carries the mask
\* of the Embedding before it
InitSoftmax ==
    /\ NoRun
    /\ NoCall
    /\ cell = "Dense"
    /\ \E bt \in LogitShapes :
          \E v \in [1..bt[1] -> [1..bt[2] -> Logits]],
             m \in [1..bt[1] -> [1..bt[2] -> BOOLEAN]] :
             y = [layer |-> "Dense", mask_zero |-> FALSE, value |-> v, mask |-> m]
    /\ raw_inputs = <<>> /\ padded_inputs = <<>> /\ inputs = <<>>
    /\ x = NoTensor
    /\ outputs = <<>>

\* outputs = TemporalSoftmax()(x)
TemporalSoftmaxCell ==
    /\ cell = "Dense"
    /\ outputs' = TemporalSoftmax_call(y.value, y.mask)
    /\ cell' = "TemporalSoftmax"
    /\ UNCHANGED <<fitvars, fnvars, raw_inputs, padded_inputs, inputs, x, y>>

NextSoftmax == TemporalSoftmaxCell

SpecSoftmax == InitSoftmax /\ [][NextSoftmax]_vars

\* ------------------------------------------------------------ padding
\* the lists of 1..MaxBatch sequence lengths, each 0..MaxLen
Lengths == UNION { [1..n -> 0..MaxLen] : n \in 1..MaxBatch }

\* raw_inputs = [...]: sequences of unequal length
InitPad ==
    /\ NoRun
    /\ NoCall
    /\ cell = "raw_inputs"
    /\ \E lens \in Lengths : raw_inputs = RawInputs(lens)
    /\ padded_inputs = <<>> /\ inputs = <<>>
    /\ x = NoTensor /\ y = NoTensor
    /\ outputs = <<>>

\* pad_sequences called without padding="post": the zeros come first
PadSequences_pre ==
    /\ cell = "raw_inputs"
    /\ padded_inputs' = pad_sequences(raw_inputs, "pre", 0)
    /\ cell' = "pad_sequences"
    /\ UNCHANGED <<fitvars, fnvars, raw_inputs, inputs, x, y, outputs>>

\* padded_inputs = pad_sequences(raw_inputs, padding="post")
PadSequences ==
    /\ cell = "raw_inputs"
    /\ padded_inputs' = pad_sequences(raw_inputs, "post", 0)
    /\ cell' = "pad_sequences"
    /\ UNCHANGED <<fitvars, fnvars, raw_inputs, inputs, x, y, outputs>>

NextPad == PadSequences

SpecPad == InitPad /\ [][NextPad]_vars

\* ------------------------------------------------------------ properties
\* the names of the scopes open, outermost first
OpenScopes == [i \in 1..Len(open) |-> open[i].scope]

\* the innermost scope open
Innermost == open[Len(open)]

\* the hook that begins / ends a run of mode md
RunBeginHook(md) == "on_" \o md \o "_begin"
RunEndHook(md) == "on_" \o md \o "_end"

\* the nestings of scopes the pattern
\* run-begin (epoch-begin (batch-begin batch-end)* epoch-end)* run-end allows,
\* the evaluation sub-run of fit being a run of its own inside the epoch
NestingOf(md) ==
    CASE md = "train" -> { <<"train">>, <<"train", "epoch">>,
                           <<"train", "epoch", "train_batch">>,
                           <<"train", "epoch", "test">>,
                           <<"train", "epoch", "test", "test_batch">> }
      [] md = "test" -> { <<"test">>, <<"test", "test_batch">> }
      [] md = "predict" -> { <<"predict">>, <<"predict", "predict_batch">> }
      [] OTHER -> {}

\* C1: in every run the observers are invoked in the order run-begin,
\* (epoch-begin, (batch-begin, batch-end)*, epoch-end)*, run-end: the first
\* event is the run's begin, the run returns right after its run-end, which
\* nothing follows, every event lies in the scopes the pattern nests (a train
\* batch inside the epoch of the run), and every end event ends the innermost
\* scope begun and not yet ended, that scope being its own.
C1_TraceOrder ==
    /\ pc \in Hooks =>
         /\ OpenScopes \in NestingOf(mode)
         /\ Scope(ev.hook) = Innermost.scope
         /\ ev.hook \in BatchHooks \cup EpochHooks => Innermost.idx = ev.idx
         /\ prev = NoEvent <=> ev.hook = RunBeginHook(mode)
         /\ prev.hook # RunEndHook(mode)
         /\ Scope(ev.hook) = "train_batch" => open[2].idx = ev.epoch
    /\ pc = "idle" /\ mode # "none" => prev.hook = RunEndHook(mode)

\* C1 witness: a fit of two epochs of two batches has delivered its train-end
C1_Witness ==
    /\ pc = "on_train_end"
    /\ epochs = 2 /\ steps = 2 /\ epoch = 1 /\ done >= 4
    /\ ~model.stop_training

\* C2: the logs of every begin event are empty
C2_BeginLogsEmpty == ev.hook \in BeginHooks => ev.keys = {}

\* C2 witness: a batch begins in a later epoch, after completed batches
C2_Witness ==
    /\ ev.hook = "on_train_batch_begin"
    /\ ev.idx >= 1 /\ ev.epoch >= 1 /\ done >= 3
    /\ logs.keys # {}

\* C3 as stated: once a batch of the run has completed, the logs of every end
\* event are non-empty, on_predict_end included
C3_EndLogsNonEmpty == done >= 1 /\ ev.hook \in EndHooks => ev.keys # {}

\* C3 amended: once a batch of the run has completed, the logs of every
\* batch-end, every epoch-end, on_train_end and on_test_end are non-empty;
\* on_predict_end receives empty logs
C3_EndLogsNonEmptyButPredictEnd ==
    /\ done >= 1 /\ ev.hook \in EndHooks \ {"on_predict_end"} => ev.keys # {}
    /\ ev.hook = "on_predict_end" => ev.keys = {}

\* C3 witness: a fit that completed batches is at its train-end
C3_Witness ==
    /\ done >= 2
    /\ ev.hook = RunEndHook(mode)
    /\ mode = "train"

\* C4: once the stop flag was set during on_epoch_end of epoch e, no
\* epoch-begin and no train batch event of an epoch above e is delivered
C4_StopAtEpochEnd ==
    stopAt.hook = "on_epoch_end" =>
        (ev.hook \in {"on_epoch_begin", "on_train_batch_begin", "on_train_batch_end"}
            => ev.epoch <= stopAt.epoch)

\* C4 witness: EarlyStoppingAtMinLoss set the flag at the end of an epoch
\* that was not the last one configured, and the fit is at its train-end
C4_Witness ==
    /\ stopAt.hook = "on_epoch_end"
    /\ "EarlyStoppingAtMinLoss" \in Range(callbacks)
    /\ epochs > stopAt.epoch + 1
    /\ pc = "on_train_end"

C6_HooksOfMode ==
    pc \in Hooks =>
        /\ ev.hook \in EpochHooks => mode = "train"
        /\ mode = "test" => ev.hook \in TestHooks \ EpochHooks
        /\ mode = "predict" => ev.hook \in PredictHooks \ EpochHooks
        /\ mode = "train" => ev.hook \in TrainHooks \cup TestHooks
        /\ mode = "train" /\ ev.hook \in TestHooks =>
              /\ valSteps > 0
              /\ Len(open) >= 3
              /\ open[2].scope = "epoch" /\ open[3].scope = "test"

\* C6 witness: a predict run delivers the batch-end of its second batch
C6_Witness ==
    /\ mode = "predict"
    /\ ev.hook = "on_predict_batch_end"
    /\ ev.idx = 1

\* C7: at most one hook is executing at any time, and while a hook is
\* executing the run loop delivers no event and computes no batch
C7_Synchronous ==
    /\ [](Cardinality(active) <= 1)
    /\ [][active # {} => (ev' = ev /\ updates' = updates /\ logs' = logs
                          /\ pc' \in {pc, "raised"})]_vars

\* C7 witness: the second of two observers is executing its hook
C7_Witness ==
    /\ Len(callbacks) = 2
    /\ active = {2}
    /\ ev.hook = "on_train_batch_end"

\* C8 as stated: a hook changes no model state but the stop flag and the
\* learning rate
C8_OnlyControlWrites == lastWrite.fields \subseteq {"stop_training", "lr"}

\* C8 amended: a hook changes no model state but the stop flag and the
\* learning rate, except that EarlyStoppingAtMinLoss.on_epoch_end, when it
\* requests the stop, also sets the model's weights (to its best_weights);
\* no hook of CustomCallback or LossAndErrorPrintingCallback changes the model,
\* and only CustomLearningRateScheduler.on_epoch_begin changes the learning rate
C8_OnlyControlWritesButRestore ==
    /\ lastWrite.fields \subseteq {"stop_training", "lr", "weights"}
    /\ "weights" \in lastWrite.fields =>
          /\ lastWrite.observer = "EarlyStoppingAtMinLoss"
          /\ lastWrite.hook = "on_epoch_end"
          /\ lastWrite.stop
    /\ "lr" \in lastWrite.fields =>
          /\ lastWrite.observer = "CustomLearningRateScheduler"
          /\ lastWrite.hook = "on_epoch_begin"
    /\ lastWrite.observer \in {"CustomCallback", "LossAndErrorPrintingCallback"} =>
          lastWrite.fields = {}

\* C8 witness: EarlyStoppingAtMinLoss.on_epoch_end has returned after an epoch
\* without improvement, having requested the stop and set the weights
C8_Witness ==
    /\ lastWrite.observer = "EarlyStoppingAtMinLoss"
    /\ lastWrite.hook = "on_epoch_end"
    /\ lastWrite.fields = {"stop_training", "weights"}
    /\ es.wait >= 1
    /\ model.weights = es.best_weights

\* C9: a batch-begin with index b is followed at once by the batch-end with
\* index b; batch indices start at 0 in every epoch and in every evaluate or
\* predict run and go up by 1; epoch indices start at 0, go up by 1 and are
\* the same at the begin and at the end of an epoch
C9_Indices ==
    /\ prev.hook \in BatchBeginHooks /\ pc \in Hooks =>
          /\ ev.hook \in BatchEndHooks
          /\ Scope(ev.hook) = Scope(prev.hook)
          /\ ev.idx = prev.idx
    /\ ev.hook \in BatchEndHooks =>
          /\ prev.hook \in BatchBeginHooks
          /\ Scope(ev.hook) = Scope(prev.hook)
          /\ ev.idx = prev.idx
    /\ ev.hook \in BatchBeginHooks =>
          IF prev.hook \in BatchEndHooks /\ Scope(prev.hook) = Scope(ev.hook)
          THEN ev.idx = prev.idx + 1
          ELSE ev.idx = 0 /\ prev.hook \in BeginHooks \ BatchBeginHooks
    /\ ev.hook = "on_epoch_begin" =>
          IF prev.hook = "on_epoch_end"
          THEN ev.idx = prev.idx + 1
          ELSE ev.idx = 0 /\ prev.hook = "on_train_begin"
    /\ ev.hook = "on_epoch_end" =>
          /\ Len(open) = 2
          /\ open[2] = [scope |-> "epoch", idx |-> ev.idx]
          /\ ev.idx = epoch

\* C9 witness: the second batch of the second epoch has ended
C9_Witness ==
    /\ ev.hook = "on_train_batch_end"
    /\ ev.idx = 1 /\ ev.epoch = 1
    /\ prev.hook = "on_train_batch_begin"

\* C10: the logs of every train batch-end, test batch-end and epoch-end hold
\* "loss" and every compiled metric, and no read of
\* LossAndErrorPrintingCallback misses its key
C10_MetricKeys ==
    /\ ev.hook \in {"on_train_batch_end", "on_test_batch_end", "on_epoch_end"} =>
          /\ "loss" \in ev.keys
          /\ Metrics \subseteq ev.keys
    /\ raised # "KeyError"

\* C10 witness: LossAndErrorPrintingCallback.on_epoch_end has returned for an
\* epoch with validation
C10_Witness ==
    /\ lastWrite.observer = "LossAndErrorPrintingCallback"
    /\ lastWrite.hook = "on_epoch_end"
    /\ ev.hook = "on_epoch_end"
    /\ valSteps > 0
    /\ raised = "none"

\* EarlyStoppingAtMinLoss.on_epoch_end of the epoch that just ended has run
\* (it returned, or raised)
ESatEpochEnd ==
    /\ "EarlyStoppingAtMinLoss" \in Range(callbacks)
    /\ lastWrite.observer = "EarlyStoppingAtMinLoss"
    /\ lastWrite.hook = "on_epoch_end"

\* C11 as stated: for every patience p >= 0 and every sequence of epoch
\* losses, EarlyStoppingAtMinLoss leaves the stop flag set at the end of an
\* epoch exactly when the number of consecutive epochs without improvement
\* equals p then (the first such epoch, the run ending there), p = 0 included
C11_StopsAtPatience ==
    ESatEpochEnd => (model.stop_training <=> hist.streak = es.patience)

\* C11 amended: the stop flag is set at the end of the first epoch at which
\* the number of consecutive epochs without improvement equals p when p >= 1,
\* and never earlier; with p = 0 (the default) it is set at the end of the
\* first epoch without improvement, as with p = 1, and never at the end of an
\* epoch that improved
C11_StopsAtPatienceOrOne ==
    ESatEpochEnd =>
        /\ model.stop_training <=>
              hist.streak = (IF es.patience = 0 THEN 1 ELSE es.patience)
        /\ model.stop_training =>
              /\ stopAt.hook = "on_epoch_end"
              /\ stopAt.epoch = epoch

\* C11 witness: with patience 2 the flag was set at the end of the fifth
\* epoch, the second epoch without improvement after the loss had improved in
\* the third
C11_Witness ==
    /\ ESatEpochEnd
    /\ es.patience = 2
    /\ model.stop_training
    /\ stopAt.epoch = 4
    /\ hist.streak = 2
    /\ hist.lowestWeights = 3

SchedulerReturns ==
    /\ pc = "on_epoch_begin"
    /\ \E i \in active : /\ callbacks[i] = "CustomLearningRateScheduler"
                         /\ active' = active \ {i}

\* C13: CustomLearningRateScheduler sets the learning rate to
\* schedule(e, rate just before) when its on_epoch_begin of epoch e returns;
\* the first batch of e begins only once every observer has returned from the
\* epoch-begin; and the rate changes at no other step of the run, so every
\* batch of e runs with that rate
C13_RateSetAtEpochBegin ==
    /\ [][SchedulerReturns =>
            /\ ev.idx = epoch
            /\ model'.lr = lr_schedule(epoch, model.lr)]_vars
    /\ [][pc = "on_epoch_begin" /\ pc' = "on_train_batch_begin" =>
            /\ active = {}
            /\ next > Len(callbacks)
            /\ lastWrite.observer = "CustomLearningRateScheduler"
            /\ lastWrite.hook = "on_epoch_begin"]_vars
    /\ [][model'.lr # model.lr /\ pc \in Hooks => SchedulerReturns]_vars

\* C13 witness: the second batch of epoch 6 has run with the rate the
\* scheduler set at the begin of epoch 6
C13_Witness ==
    /\ callbacks = LRCallbacks
    /\ ev.hook = "on_train_batch_end"
    /\ ev.epoch = 6 /\ ev.idx = 1
    /\ model.lr = lr_schedule(6, 500)
    /\ model.lr # 500

\* the rate of the entry of LR_SCHEDULE with the greatest start epoch <= e,
\* r0 when e is below every start epoch
RateInEffect(e, r0) ==
    LET started == {i \in 1..Len(LR_SCHEDULE) : LR_SCHEDULE[i][1] <= e} IN
    IF started = {} THEN r0
    ELSE LR_SCHEDULE[CHOOSE i \in started :
                        \A j \in started : LR_SCHEDULE[j][1] <= LR_SCHEDULE[i][1]][2]

\* C14: in a fit with CustomLearningRateScheduler(lr_schedule) that starts at
\* epoch 0 with rate r0, every batch of epoch e, and the end of epoch e, see
\* the rate of the entry of LR_SCHEDULE with the greatest start epoch <= e, r0
\* below the first start epoch; after the last start epoch the rate stays that
\* of the last entry
C14_RateInEffect ==
    /\ "CustomLearningRateScheduler" \in Range(callbacks)
    /\ ev.hook \in {"on_train_batch_begin", "on_train_batch_end", "on_epoch_end"}
    => model.lr = RateInEffect(ev.epoch, InitialLR)

\* C14 witness: a batch of epoch 13, past the last start epoch, runs with the
\* last entry's rate
C14_Witness ==
    /\ callbacks = LRCallbacks
    /\ ev.hook = "on_train_batch_end"
    /\ ev.epoch = LR_SCHEDULE[Len(LR_SCHEDULE)][1] + 1
    /\ model.lr = LR_SCHEDULE[Len(LR_SCHEDULE)][2]

\* ------------------------------------- the masking and padding guide
\* C15: in the layer sequence generator, custom layer, consumer, the consumer
\* is passed the generator's mask unchanged when the custom layer set
\* supports_masking = True (MyActivation), and no mask when the custom layer
\* neither set supports_masking nor defines compute_mask
C15_OptInPropagation ==
    cell = "LSTM" =>
        /\ y.layer = "MyActivation" => outputs.mask = x.mask
        /\ y.layer = "PlainActivation" => outputs.mask = None
        /\ x.mask = IF x.layer = "Masking" \/ x.mask_zero
                    THEN tf_not_equal(inputs, 0) ELSE None

\* C15 witness: the LSTM after MyActivation after Embedding(mask_zero=True)
\* was passed a mask that has entries of both values
C15_Witness ==
    /\ cell = "LSTM"
    /\ x.layer = "Embedding" /\ x.mask_zero
    /\ y.layer = "MyActivation"
    /\ outputs.mask # None
    /\ \E b \in DOMAIN inputs : \E i, j \in DOMAIN inputs[b] :
          outputs.mask[b][i] /\ ~outputs.mask[b][j]

\* C16: CustomEmbedding.compute_mask returns, when mask_zero is True, a
\* boolean tensor of the shape (batch, seq_len) of its input whose entry is
\* True exactly where the token is not 0, and None when mask_zero is False;
\* the mask is the one Embedding(mask_zero=True) attaches for the same input
\* and the one the Masking layer computes from the input's expansion
C16_CustomEmbeddingMask ==
    cell = "CustomEmbedding" =>
        IF x.mask_zero
        THEN /\ DOMAIN x.mask = DOMAIN inputs
             /\ \A b \in DOMAIN inputs :
                   /\ DOMAIN x.mask[b] = DOMAIN inputs[b]
                   /\ \A i \in DOMAIN inputs[b] :
                         /\ x.mask[b][i] \in BOOLEAN
                         /\ x.mask[b][i] <=> inputs[b][i] # 0
             /\ x.mask = Embedding_compute_mask(TRUE, inputs)
             /\ x.mask = Masking_compute_mask(unmasked_embedding(inputs))
        ELSE x.mask = None

\* C16 witness: the mask of a batch of two rows, one of them with a 0 before
\* a token that is not 0
C16_Witness ==
    /\ cell = "CustomEmbedding"
    /\ x.mask_zero
    /\ Len(inputs) = 2
    /\ \E b \in DOMAIN inputs : \E i, j \in DOMAIN inputs[b] :
          i < j /\ inputs[b][i] = 0 /\ inputs[b][j] # 0 /\ x.mask[b][j]

\* C17: for an input whose time dimension T is even, TemporalSplit.compute_mask
\* returns two masks of shape (batch, T/2): the first is the input mask on
\* timesteps 0..T/2-1, the second the input mask on timesteps T/2..T-1, each
\* covers the timesteps of the half that call returns at the same place, and
\* the two put end to end give the input mask; without an input mask it
\* returns None
C17_SplitMask ==
    cell = "TemporalSplit" =>
        LET h == TimeDim(x.value) \div 2 IN
        /\ TimeDim(x.value) = 2 * h
        /\ Len(y.value) = 2
        /\ \A k \in 1..2 : \A b \in DOMAIN inputs :
              /\ Len(y.value[k][b]) = h
              /\ \A i \in 1..h : y.value[k][b][i] = x.value[b][(k - 1) * h + i]
        /\ IF x.mask = None
           THEN y.mask = None
           ELSE /\ Len(y.mask) = 2
                /\ \A k \in 1..2 : DOMAIN y.mask[k] = DOMAIN x.mask
                /\ \A b \in DOMAIN x.mask :
                      /\ Len(y.mask[1][b]) = h /\ Len(y.mask[2][b]) = h
                      /\ \A i \in 1..h : /\ y.mask[1][b][i] = x.mask[b][i]
                                         /\ y.mask[2][b][i] = x.mask[b][h + i]
                      /\ y.mask[1][b] \o y.mask[2][b] = x.mask[b]

\* C17 witness: a mask over four timesteps was split into two halves that
\* differ
C17_Witness ==
    /\ cell = "TemporalSplit"
    /\ x.mask # None
    /\ TimeDim(x.value) = 4
    /\ y.mask[1] # y.mask[2]
    /\ y.mask[1][1] = <<TRUE, TRUE>>

\* fractions: equal as numbers; the number 0; the sum of a sequence
RatEq(p, q) == p.den # 0 /\ q.den # 0 /\ p.num * q.den = q.num * p.den
RatIsZero(p) == p.den # 0 /\ p.num = 0
RECURSIVE RatSum(_)
RatSum(q) ==
    IF q = <<>> THEN [num |-> 0, den |-> 1]
    ELSE LET r == RatSum(Tail(q)) IN
         [num |-> q[1].num * r.den + r.num * q[1].den, den |-> q[1].den * r.den]

\* the timesteps of sample b that the mask keeps
Unmasked(mask, b) == {i \in DOMAIN mask[b] : mask[b][i]}

\* the entries of row at the timesteps in keep, in order
RECURSIVE Kept(_, _)
Kept(row, keep) ==
    IF row = <<>> THEN <<>>
    ELSE LET rest == Kept(SubSeq(row, 1, Len(row) - 1), keep) IN
         IF Len(row) \in keep THEN Append(rest, row[Len(row)]) ELSE rest

\* C18 as stated: the output of TemporalSoftmax at an unmasked timestep t of
\* a sample is exp(x_t) over the sum of exp(x_s) for the unmasked timesteps s
\* of the sample, and the outputs at the unmasked timesteps of a sample sum
\* to 1
C18_SoftmaxOverUnmasked ==
    cell = "TemporalSoftmax" =>
        \A b \in DOMAIN outputs :
            LET keep == Unmasked(y.mask, b)
                total == SumSeq(Kept([i \in DOMAIN y.value[b] |-> tf_exp(y.value[b][i])],
                                     keep))
            IN keep # {} =>
                /\ \A i \in keep :
                      RatEq(outputs[b][i],
                            [num |-> tf_exp(y.value[b][i]), den |-> total])
                /\ RatEq(RatSum(Kept(outputs[b], keep)), [num |-> 1, den |-> 1])

\* C18 failing input: inputs [[[1.], [1.]]] with mask [[True, True]]; each
\* output is exp(1) / (1 + 1), where the softmax is 1/2
C18_FailingInput ==
    /\ cell = "TemporalSoftmax"
    /\ y.value = << <<1, 1>> >>
    /\ y.mask = << <<TRUE, TRUE>> >>
    /\ \A i \in 1..2 :
          /\ RatEq(outputs[1][i], [num |-> tf_exp(1), den |-> (1 + 1) * ExpUnit])
          /\ ~RatEq(outputs[1][i], [num |-> 1, den |-> 2])

\* the output at every masked timestep is 0
MaskedOutputsAreZero ==
    \A b \in DOMAIN outputs : \A i \in DOMAIN outputs[b] :
        ~y.mask[b][i] => RatIsZero(outputs[b][i])

\* inputs that differ from the layer's at masked timesteps only give the same
\* outputs at the unmasked timesteps
MaskedInputsIgnored ==
    \A z \in [DOMAIN y.value -> [DOMAIN y.value[1] -> Logits]] :
        (\A b \in DOMAIN z : \A i \in Unmasked(y.mask, b) : z[b][i] = y.value[b][i])
        => \A b \in DOMAIN z : \A i \in Unmasked(y.mask, b) :
               TemporalSoftmax_call(z, y.mask)[b][i] = outputs[b][i]

\* C19 as stated: the output of TemporalSoftmax at every masked timestep is 0,
\* and the input values at masked timesteps have no influence on the outputs
\* at unmasked timesteps
C19_MaskedOutOfSoftmax ==
    cell = "TemporalSoftmax" => MaskedOutputsAreZero /\ MaskedInputsIgnored

\* C19 failing input: inputs [[[1.], [-1.], [0.]]] with mask
\* [[True, True, False]]; the layer divides by 1 + (-1) = 0, and the output
\* at the masked timestep is 0/0, not 0
C19_FailingInput ==
    /\ cell = "TemporalSoftmax"
    /\ y.value = << <<1, -1, 0>> >>
    /\ y.mask = << <<TRUE, TRUE, FALSE>> >>
    /\ outputs[1][3].num = 0 /\ outputs[1][3].den = 0
    /\ MaskedInputsIgnored

\* C20: post-padding with the default filler gives a batch with one row per
\* sequence, every row as long as the longest sequence; each row begins with
\* its sequence, unchanged, and is 0 at every place after it
C20_PostPadding ==
    cell = "pad_sequences" =>
        LET longest == Max({Len(raw_inputs[r]) : r \in DOMAIN raw_inputs}) IN
        /\ DOMAIN padded_inputs = DOMAIN raw_inputs
        /\ \A r \in DOMAIN raw_inputs :
              /\ Len(padded_inputs[r]) = longest
              /\ SubSeq(padded_inputs[r], 1, Len(raw_inputs[r])) = raw_inputs[r]
              /\ \A i \in (Len(raw_inputs[r]) + 1)..longest : padded_inputs[r][i] = 0

\* C20 witness: three sequences of the lengths 3, 2 and 0 were padded
C20_Witness ==
    /\ cell = "pad_sequences"
    /\ Len(raw_inputs) = 3
    /\ Len(raw_inputs[1]) = 3 /\ Len(raw_inputs[2]) = 2 /\ Len(raw_inputs[3]) = 0
    /\ padded_inputs[2][3] = 0
    /\ padded_inputs[2][2] = raw_inputs[2][2]
    /\ padded_inputs[3] = <<0, 0, 0>>


\* ------------------------------------------------- the callbacks guide, again
\* C21: in a fit with validation data, every epoch holds one complete
\* evaluation sub-run: on_test_begin comes right after the last train batch-end
\* of the epoch (the last batch, or the one at which a stop was requested), the
\* test batches 0 .. valSteps - 1 follow as begin/end pairs, on_test_end comes
\* after the last pair and the epoch's on_epoch_end right after on_test_end;
\* the logs of that on_epoch_end hold the training metrics and the validation
\* metrics under the keys prefixed "val_"
C21_ValidationInEpoch ==
    mode = "train" /\ valSteps > 0 /\ pc \in Hooks =>
        /\ ev.hook = "on_test_begin" =>
              /\ prev.hook = "on_train_batch_end"
              /\ prev.epoch = ev.epoch
              /\ prev.idx = steps - 1 \/ model.stop_training
              /\ OpenScopes = <<"train", "epoch", "test">>
              /\ open[2].idx = ev.epoch
        /\ prev.hook = "on_train_batch_end" =>
              ev.hook \in {"on_train_batch_begin", "on_test_begin"}
        /\ prev.hook = "on_test_begin" =>
              ev.hook = "on_test_batch_begin" /\ ev.idx = 0
        /\ prev.hook = "on_test_batch_begin" =>
              ev.hook = "on_test_batch_end" /\ ev.idx = prev.idx
        /\ prev.hook = "on_test_batch_end" =>
              IF prev.idx + 1 < valSteps
              THEN ev.hook = "on_test_batch_begin" /\ ev.idx = prev.idx + 1
              ELSE ev.hook = "on_test_end"
        /\ prev.hook = "on_test_end" =>
              ev.hook = "on_epoch_end" /\ ev.epoch = prev.epoch
        /\ ev.hook = "on_epoch_end" =>
              /\ prev.hook = "on_test_end"
              /\ ev.keys = MetricKeys \cup {"val_loss", "val_mean_absolute_error"}

\* C21 witness: the second epoch of a fit with two validation batches ends, its
\* evaluation sub-run delivered after both train batches of the epoch
C21_Witness ==
    /\ mode = "train" /\ valSteps = 2 /\ steps = 2
    /\ ev.hook = "on_epoch_end" /\ ev.epoch = 1
    /\ prev.hook = "on_test_end"
    /\ done = 8
    /\ "val_loss" \in ev.keys

\* EarlyStoppingAtMinLoss.on_train_end of the run has returned
ESatTrainEnd ==
    /\ "EarlyStoppingAtMinLoss" \in Range(callbacks)
    /\ pc = "on_train_end"
    /\ lastWrite.observer = "EarlyStoppingAtMinLoss"
    /\ lastWrite.hook = "on_train_end"

\* C22 as stated: at train-end EarlyStoppingAtMinLoss reports "early stopping"
\* exactly when it set the stop flag in the current run, and the epoch number
\* it reports is the index of the epoch at whose end it set the flag, plus 1; a
\* run in which it requested no stop reports nothing
C22_ReportsItsStop ==
    ESatTrainEnd =>
        /\ printed # 0 <=> stopAt.hook # "none"
        /\ printed # 0 =>
              /\ stopAt.hook = "on_epoch_end"
              /\ printed = stopAt.epoch + 1

\* C22 failing input: an instance that holds the best weights of an earlier
\* fit set the stop flag at the end of epoch 0 (a loss that is not a number),
\* and on_train_end reported nothing
C22_FailingInput ==
    /\ ESatTrainEnd
    /\ stopAt = [hook |-> "on_epoch_end", epoch |-> 0, batch |-> 0]
    /\ model.stop_training
    /\ es.stopped_epoch = 0
    /\ raised = "none"
    /\ printed = 0

\* C23: lr_schedule(epoch, lr) returns the rate of the entry of LR_SCHEDULE
\* whose start epoch is epoch, and lr itself when no entry starts at epoch
\* (below the first start epoch, above the last, or between two of them)
C23_ScheduleAtStartEpochs ==
    args # NoArgs /\ scheduled_lr # Unscheduled =>
        LET entries == {i \in 1..Len(LR_SCHEDULE) : LR_SCHEDULE[i][1] = args.epoch} IN
        /\ \A i \in entries : scheduled_lr = LR_SCHEDULE[i][2]
        /\ entries = {} => scheduled_lr = args.lr

\* C23 witness: called for epoch 7, between the start epochs 6 and 9, with a
\* rate that is not the one of the entry started at 6, lr_schedule returned
\* the rate it was given
C23_Witness ==
    /\ args = [epoch |-> 7, lr |-> InitialLR]
    /\ scheduled_lr = InitialLR
    /\ LR_SCHEDULE[2][1] < 7 /\ 7 < LR_SCHEDULE[3][1]

\* on_epoch_begin of CustomLearningRateScheduler was the last hook to run
SchedulerRan ==
    /\ "CustomLearningRateScheduler" \in Range(callbacks)
    /\ lastWrite.observer = "CustomLearningRateScheduler"
    /\ lastWrite.hook = "on_epoch_begin"

RunBegun == pc \in Hooks /\ pc = RunBeginHook(mode)

\* the run-end of the run in progress has been delivered to every observer
RunEnded == pc = RunEndHook(mode) /\ Delivered

\* a hook has set the stop flag at the end of the epoch being closed
StopRequested == pc = "on_epoch_end" /\ stopAt.hook = "on_epoch_end"

\* train-end has been delivered to every observer, right after the epoch-end
\* of the epoch at which the stop was requested
StoppedRunEnded ==
    /\ pc = "on_train_end" /\ Delivered
    /\ prev.hook = "on_epoch_end"
    /\ prev.idx = stopAt.epoch

\* run-end is delivered once every observer has returned from the event
\* before it, it is delivered once, and no event of the run follows it
RunEndIsLast ==
    /\ [][pc = RunEndHook(mode) /\ pc \in Hooks => pc' \in {pc, "idle"}]_vars
    /\ [][pc' = RunEndHook(mode) /\ pc' # pc /\ pc \in Hooks => Delivered]_vars

AllObservers == [i \in 1..Len(callbacks) |-> i]

\* the run loop goes from one lifecycle event to the next (or returns)
EventOver == pc \in Hooks /\ pc' # pc

=============================================================================
